---- MODULE Spec2Model ----
(***************************************************************************)
(* Model of the Yokogawa AQ6370D driver (src/OSACode_ForFiO.py): the       *)
(* AQ6370D class (open_socket, close_socket, send_command, __query__,      *)
(* initialize_connection, get_single_trace, ArrayForLabview) and the       *)
(* acquisition loop of its __main__ block; and of the OSA class of         *)
(* src/OSA.py where it differs (set_sweep_mode, the parse inside           *)
(* get_single_trace).                                                      *)
(*                                                                         *)
(* Text is a sequence of symbols.  The sentinel 'ready' is one symbol: the *)
(* word does not overlap itself, so searching for it is searching for the  *)
(* symbol.  "1" is a digit, " " whitespace, "x" any character that is      *)
(* neither, "," the separator and "0xFF" a byte that is not valid UTF-8.   *)
(***************************************************************************)
EXTENDS Integers, Sequences, FiniteSets, TLC

\* ---------------------------------------------------------------- bounds
MaxRequired == 2      \* largest required_iterations tried (the script sets 50)
MaxRecvLen == 3       \* most symbols one response holds
MaxFaults == 1        \* most writes that raise or fall short on a live connection
MaxTextLen == 5       \* most symbols in a response text handed to a parse
MaxCalls == 4         \* most method calls a client makes on one object

\* ------------------------------------------------------------- constants
NoTarget == -1        \* target_data_length = None

Symbols == {"ready", ",", "1", " ", "x", "0xFF"}

\* What the instrument's answers are made of in the session.  A second
\* 'ready' after the sentinel is a segment float() rejects.
DeviceSymbols == {"ready", ",", "1"}

\* The request the loop names for its axis (longitud_onda_inicial/final).
LoopRequest == <<600, 1100>>

NoneT == [none |-> TRUE, text |-> <<>>]
Text(t) == [none |-> FALSE, text |-> t]

\* Python truthiness of `trace_data`: None and '' are false.
Truthy(v) == ~v.none /\ v.text # <<>>

\* ------------------------------------------------------------ pure parts
\* bytes.decode('utf-8', errors='ignore'): undecodable bytes are dropped.
decode(b) == SelectSeq(b, LAMBDA c : c # "0xFF")

\* 'ready' in trace_data
HasReady(t) == \E i \in 1..Len(t) : t[i] = "ready"

FirstIndex(t, c) == CHOOSE i \in 1..Len(t) : t[i] = c /\ \A j \in 1..(i-1) : t[j] # c

\* Mutant (C15): the text is cut at the last 'ready' instead of the first.
AfterLastReady(t) ==
    SubSeq(t, 1 + CHOOSE i \in 1..Len(t) :
                     t[i] = "ready" /\ \A j \in (i+1)..Len(t) : t[j] # "ready",
           Len(t))

\* trace_data.split('ready', 1)[1]
AfterReady(t) == SubSeq(t, FirstIndex(t, "ready") + 1, Len(t))

\* str.split(","): always at least one segment
RECURSIVE SplitComma(_)
SplitComma(t) ==
    IF \A i \in 1..Len(t) : t[i] # ","
    THEN <<t>>
    ELSE LET i == FirstIndex(t, ",")
         IN  <<SubSeq(t, 1, i - 1)>> \o SplitComma(SubSeq(t, i + 1, Len(t)))

\* str.strip()
RECURSIVE Strip(_)
Strip(s) ==
    IF s = <<>> THEN s
    ELSE IF Head(s) = " " THEN Strip(Tail(s))
    ELSE IF s[Len(s)] = " " THEN Strip(SubSeq(s, 1, Len(s) - 1))
    ELSE s

\* float(numero) returns (TRUE) or raises ValueError (FALSE)
IsFloat(s) == Strip(s) # <<>> /\ \A i \in 1..Len(Strip(s)) : Strip(s)[i] = "1"

\* [... for numero in text_after_ready.split(",") if numero.strip()]
KeptSegments(t) == SelectSeq(SplitComma(AfterReady(t)), LAMBDA s : Strip(s) # <<>>)

\* the list comprehension raises ValueError when a kept segment is no float
ParseRaises(t) == \E i \in 1..Len(KeptSegments(t)) : ~IsFloat(KeptSegments(t)[i])

\* len(intensities)
SampleCount(t) == Len(KeptSegments(t))

\* len(np.linspace(start, stop, n))
LinspaceLen(n) == n

\* len() of a str counts characters: 'ready' is five, every other symbol one
RECURSIVE StrLen(_)
StrLen(t) == IF t = <<>> THEN 0
             ELSE (IF Head(t) = "ready" THEN 5 ELSE 1) + StrLen(Tail(t))

\* the floats of the comprehension, each known by the digits it was read from
Floats(segments) == [i \in 1..Len(segments) |-> Strip(segments[i])]

\* What a parse gave: op names the code that ran, raised the exception it let
\* out, caught the exception it swallowed, pair whether it produced an
\* (axis, samples) pair, axis the length of the axis.
NoResult == [op |-> "none", raised |-> "none", caught |-> "none", pair |-> FALSE,
             axis |-> 0, samples |-> <<>>]

Pair(op, axis, samples) ==
    [op |-> op, raised |-> "none", caught |-> "none", pair |-> TRUE,
     axis |-> axis, samples |-> samples]

NoPair(op, raised, caught) ==
    [op |-> op, raised |-> raised, caught |-> caught, pair |-> FALSE,
     axis |-> 0, samples |-> <<>>]

\* The loop's parse and axis, lines 180-200, of a value get_single_trace returned.
LoopParse(v) ==
    IF ~Truthy(v) \/ ~HasReady(v.text) THEN NoPair("loop", "none", "none")
    ELSE IF ParseRaises(v.text) THEN NoPair("loop", "ValueError", "none")
    ELSE Pair("loop", LinspaceLen(SampleCount(v.text)), Floats(KeptSegments(v.text)))

\* Mutant (C22): the parse stands outside the try, as in the script's loop.
OSATraceParsingOutsideTry(v) ==
    IF v.none THEN NoPair("osa", "none", "TypeError")
    ELSE IF ~Truthy(v) \/ ~HasReady(v.text) THEN NoPair("osa", "none", "UnboundLocalError")
    ELSE IF ParseRaises(v.text) THEN NoPair("osa", "ValueError", "none")
    ELSE Pair("osa", LinspaceLen(SampleCount(v.text)), Floats(KeptSegments(v.text)))

\* OSA.get_single_trace after __query__ (OSA.py lines 214-233): every
\* exception is caught and the method then returns None.  print(None[:40])
\* raises TypeError; without a parse the return statement reads unbound locals.
OSATrace(v) ==
    IF v.none THEN NoPair("osa", "none", "TypeError")
    ELSE IF ~Truthy(v) \/ ~HasReady(v.text) THEN NoPair("osa", "none", "UnboundLocalError")
    ELSE IF ParseRaises(v.text) THEN NoPair("osa", "none", "ValueError")
    ELSE Pair("osa", LinspaceLen(SampleCount(v.text)), Floats(KeptSegments(v.text)))

\* ArrayForLabview(InputArray, ...): no filter on the segments, and the axis
\* has len(InputArray) points, the number of characters of the text.
ArrayForLabview(InputArray) ==
    IF ~HasReady(InputArray) THEN NoPair("labview", "IndexError", "none")
    ELSE IF \E i \in 1..Len(SplitComma(AfterReady(InputArray))) :
                 ~IsFloat(SplitComma(AfterReady(InputArray))[i])
         THEN NoPair("labview", "ValueError", "none")
    ELSE Pair("labview", LinspaceLen(StrLen(InputArray)),
              Floats(SplitComma(AfterReady(InputArray))))

\* ----------------------------------------------------- the command list
\* Mutant (C10): the sweep is initiated before the status is cleared.
CommandsInitFirst(ws, we) ==
    << <<"open \"anonymous\"">>,
       <<"*RST">>,
       <<"CFORM1">>,
       <<":sens:wav:start ", ws, "nm">>,
       <<":sens:wav:stop ", we, "nm">>,
       <<":sens:sens HIGH2">>,
       <<":sens:sens:speed 2x">>,
       <<":sens:sweep:points:auto on">>,
       <<":init:smode 1">>,
       <<":init">>,
       <<"*CLS">>,
       <<":TRACE:Y? TRA">> >>

\* get_single_trace's writes in program order; the last one is __query__'s.
Commands(ws, we) ==
    << <<"open \"anonymous\"">>,
       <<"*RST">>,
       <<"CFORM1">>,
       <<":sens:wav:start ", ws, "nm">>,
       <<":sens:wav:stop ", we, "nm">>,
       <<":sens:sens HIGH2">>,
       <<":sens:sens:speed 2x">>,
       <<":sens:sweep:points:auto on">>,
       <<":init:smode 1">>,
       <<"*CLS">>,
       <<":init">>,
       <<":TRACE:Y? TRA">> >>

NCommands == 12

\* (command + "\r\n").encode()
Encode(command) == Append(command, "\r\n")

\* ------------------------------------------------------------------ state
VARIABLES
    pc,                  \* position of the single thread
    caller,              \* who get_single_trace returns to: "main" or "client"
    required_iterations, \* main: required_iterations
    iteration_count,     \* main: iteration_count
    target_data_length,  \* main: target_data_length (NoTarget = None)
    saved,               \* calls of save_data_to_csv: [index, axis, samples]
    trace_data,          \* the value get_single_trace hands back
    error,               \* the exception that ended the script, or "none"
    outcome,             \* how the last loop iteration ended ("pending" while one runs)
    retried,             \* an iteration since the last accepted one was a length mismatch
    args,                \* get_single_trace's (wavelength_start, wavelength_stop)
    socket,              \* self.socket: "None", "unconnected", "connected", "broken", "closed"
    step,                \* index in Commands of the next send_command
    received_data,       \* __query__: received_data
    wire,                \* what the writes delivered on the connection now open
    failed,              \* an open or a write of this get_single_trace raised
    attempts,            \* the buffers handed to socket.send on this object
    faults,              \* writes that raised or fell short on the live connection
    nOpen,               \* OS sockets created and not closed
    opens,               \* sockets created during this get_single_trace
    closes,              \* socket.close() calls during this get_single_trace
    chunks,              \* the chunks recv handed over, in arrival order
    result               \* what the last parse of a response text gave

vars == <<pc, caller, required_iterations, iteration_count, target_data_length,
          saved, trace_data, error, outcome, retried, args, socket, step,
          received_data, wire, failed, attempts, faults, nOpen, opens, closes,
          chunks, result>>

mainVars == <<required_iterations, iteration_count, target_data_length, saved,
              error, outcome, retried>>
objVars == <<socket, step, received_data, wire, failed, attempts, faults, nOpen, opens,
             closes, args, chunks>>

\* AQ6370D.__init__: self.socket = None (a fresh object, nothing written yet)
NewObject ==
    /\ socket' = "None"
    /\ step' = 1
    /\ received_data' = <<>>
    /\ chunks' = <<>>
    /\ wire' = <<>>
    /\ failed' = FALSE
    /\ attempts' = <<>>
    /\ faults' = 0
    /\ opens' = 0
    /\ closes' = 0

InitCommon ==
    /\ required_iterations \in 0..MaxRequired
    /\ iteration_count = 0
    /\ target_data_length = NoTarget
    /\ saved = <<>>
    /\ trace_data = NoneT
    /\ error = "none"
    /\ outcome = "none"
    /\ retried = FALSE
    /\ args = <<>>
    /\ socket = "None"
    /\ step = 1
    /\ received_data = <<>>
    /\ wire = <<>>
    /\ failed = FALSE
    /\ attempts = <<>>
    /\ faults = 0
    /\ nOpen = 0
    /\ opens = 0
    /\ closes = 0
    /\ chunks = <<>>
    /\ result = NoResult

\* ------------------------------------------------------ AQ6370D methods
\* open_socket: socket.socket() may raise (self.socket stays None); connect
\* may raise or time out (self.socket is then an unconnected socket object).
\* Every exception is caught and printed.
\* A socket object self.socket held before is dropped by the assignment and
\* closed with its last reference.
Held == IF socket \in {"connected", "unconnected", "broken"} THEN 1 ELSE 0

Connect ==
    \/ /\ socket' = "connected"
       /\ nOpen' = nOpen + 1 - Held /\ opens' = opens + 1
       /\ wire' = <<>>
       /\ UNCHANGED failed
    \/ /\ socket' = "unconnected"
       /\ nOpen' = nOpen + 1 - Held /\ opens' = opens + 1
       /\ wire' = <<>>
       /\ failed' = TRUE
    \/ /\ socket' = socket
       /\ failed' = TRUE
       /\ UNCHANGED <<nOpen, opens, wire>>

open_socket ==
    /\ pc = "open_socket"
    /\ Connect
    /\ pc' = "send_command"
    /\ UNCHANGED <<caller, result, mainVars, trace_data, args, step, received_data, chunks,
                   attempts, faults, closes>>

\* What one self.socket.send(buf) does to the connection.
SendOk(buf) ==
    /\ socket = "connected"
    /\ wire' = Append(wire, buf)
    /\ UNCHANGED <<socket, faults, failed>>

\* socket.send may take only part of the buffer; it returns the count, which
\* send_command ignores.  The part delivered is the buffer without its end.
ShortOf(buf) == SubSeq(buf, 1, Len(buf) - 1)

SendShort(buf) ==
    /\ socket = "connected" /\ faults < MaxFaults
    /\ faults' = faults + 1
    /\ wire' = Append(wire, ShortOf(buf))
    /\ UNCHANGED <<socket, failed>>

SendFails ==
    /\ failed' = TRUE
    /\ \/ /\ socket \in {"unconnected", "broken", "closed"}
          /\ UNCHANGED <<socket, faults, wire>>
       \/ /\ socket = "connected" /\ faults < MaxFaults
          /\ faults' = faults + 1
          /\ UNCHANGED <<socket, wire>>
       \/ /\ socket = "connected"
          /\ socket' = "broken"
          /\ UNCHANGED <<faults, wire>>

\* Mutant (C9): a write that raised is issued a second time.
send_command_retrying(command) ==
    IF socket = "None"
    THEN UNCHANGED <<socket, wire, attempts, faults, failed>>
    ELSE \/ /\ attempts' = Append(attempts, Encode(command))
            /\ (SendOk(Encode(command)) \/ SendShort(Encode(command)))
         \/ /\ attempts' = Append(Append(attempts, Encode(command)), Encode(command))
            /\ SendFails

\* send_command(command): the exception of a failed write is caught and printed.
send_command(command) ==
    IF socket = "None"
    THEN UNCHANGED <<socket, wire, attempts, faults, failed>>
    ELSE /\ attempts' = Append(attempts, Encode(command))
         /\ \/ SendOk(Encode(command))
            \/ SendShort(Encode(command))
            \/ SendFails

\* One send_command of initialize_connection/get_single_trace/__query__.
SendStep ==
    /\ pc = "send_command"
    /\ send_command(Commands(args[1], args[2])[step])
    /\ step' = step + 1
    /\ pc' = IF step < NCommands THEN "send_command"
             ELSE IF socket' = "None" THEN "print" ELSE "recv"
    /\ trace_data' = IF step = NCommands /\ socket' = "None" THEN NoneT ELSE trace_data
    /\ UNCHANGED <<caller, result, mainVars, args, received_data, chunks, nOpen, opens, closes>>

\* __query__'s loop: one self.socket.recv(4096)
RecvChunk ==
    /\ pc = "recv"
    /\ socket = "connected"
    /\ Len(received_data) < MaxRecvLen
    /\ \E c \in DeviceSymbols :
          /\ received_data' = Append(received_data, c)
          /\ chunks' = Append(chunks, <<c>>)
    /\ UNCHANGED <<pc, caller, result, mainVars, trace_data, args, socket, step, wire,
                   failed, attempts, faults, nOpen, opens, closes>>

\* recv returns b'' or raises socket.timeout: the loop ends, the text is returned
RecvEnd ==
    /\ pc = "recv"
    /\ socket \in {"connected", "broken"}
    /\ trace_data' = Text(decode(received_data))
    /\ pc' = "print"
    /\ UNCHANGED <<caller, result, mainVars, args, socket, step, received_data, chunks, wire,
                   failed, attempts, faults, nOpen, opens, closes>>

\* recv raises another exception: __query__ returns None
RecvError ==
    /\ pc = "recv"
    /\ socket \in {"connected", "broken", "unconnected"}
    /\ trace_data' = NoneT
    /\ pc' = "print"
    /\ UNCHANGED <<caller, result, mainVars, args, socket, step, received_data, chunks, wire,
                   failed, attempts, faults, nOpen, opens, closes>>

\* Mutant (C4): only a connected socket is closed.
close_socket_connected_only ==
    IF socket # "connected"
    THEN UNCHANGED <<socket, nOpen, closes, wire>>
    ELSE /\ socket' = "closed"
         /\ wire' = <<>>
         /\ closes' = closes + 1
         /\ nOpen' = nOpen - 1

\* Mutant (C18): every call releases a socket, one already closed too.
close_socket_releasing_again ==
    IF socket = "None"
    THEN UNCHANGED <<socket, nOpen, closes, wire>>
    ELSE /\ socket' = "closed"
         /\ wire' = <<>>
         /\ closes' = closes + 1
         /\ nOpen' = nOpen - 1

\* close_socket
close_socket ==
    IF socket = "None"
    THEN UNCHANGED <<socket, nOpen, closes, wire>>
    ELSE /\ socket' = "closed"
         /\ wire' = <<>>
         /\ closes' = closes + 1
         /\ nOpen' = IF socket = "closed" THEN nOpen ELSE nOpen - 1

\* print(trace_data[:40]) raises TypeError on None, which the method's own
\* except clause catches; then finally: close_socket().  The value handed back
\* is trace_data either way (None on the except path).
Finally ==
    /\ pc = "print"
    /\ close_socket
    /\ pc' = IF caller = "main" THEN "validate" ELSE "client"
    /\ UNCHANGED <<caller, result, mainVars, trace_data, args, step, received_data, chunks, failed,
                   attempts, faults, opens>>

\* ------------------------------------------------------------ a client
\* Code that imports the class and calls get_single_trace with a request.
ClientCall ==
    /\ pc = "client"
    /\ \E ws \in {600, 1100}, we \in {600, 1100} : args' = <<ws, we>>
    /\ NewObject
    /\ trace_data' = NoneT
    /\ pc' = "open_socket"
    /\ UNCHANGED <<caller, result, mainVars, nOpen>>

\* ----------------------------------------------------- the __main__ loop
\* while iteration_count < required_iterations
LoopTest ==
    /\ pc = "loop"
    /\ pc' = IF iteration_count < required_iterations THEN "call" ELSE "done"
    /\ UNCHANGED <<caller, result, mainVars, trace_data, objVars>>

\* osa = AQ6370D(...); trace_data = osa.get_single_trace(): the call passes
\* no wavelength_start/wavelength_stop, so binding raises TypeError before
\* the method body runs; nothing in the script catches it.
MainCall ==
    /\ pc = "call"
    /\ NewObject
    /\ error' = "TypeError"
    /\ pc' = "crashed"
    /\ UNCHANGED <<caller, result, required_iterations, iteration_count, target_data_length,
                   saved, outcome, retried, trace_data, args, nOpen>>

\* The same call made with the two arguments the method's signature asks for.
\* The script does not make this call (see MainCall); it is here so that the
\* rest of the loop body, which the script as written never reaches, can be
\* examined.
MainCallWithRequest ==
    /\ pc = "call"
    /\ NewObject
    /\ args' = LoopRequest
    /\ trace_data' = NoneT
    /\ outcome' = "pending"
    /\ retried' = (retried /\ outcome # "accepted")
    /\ pc' = "open_socket"
    /\ UNCHANGED <<caller, result, required_iterations, iteration_count, target_data_length,
                   saved, error, nOpen>>

\* save_data_to_csv(longitudes_de_onda, intensities, folder_path, iteration_count):
\* what the collaborator is handed.  Writing the file is taken to succeed.
SaveRecord(index, n) == [index |-> index, axis |-> LinspaceLen(n), samples |-> n]

\* Mutant (C1): the length comparison is dropped.
AcceptsAnyLength(target, n) == TRUE

\* Mutant (C23): a trace without samples is never accepted.
AcceptsNonEmpty(target, n) == n > 0 /\ (target = NoTarget \/ n = target)

\* if target_data_length is None: ... elif len(intensities) == target_data_length:
Accepts(target, n) == target = NoTarget \/ n = target

\* Mutant (C12): the trace is saved under the counter's value before the
\* increment.
AcceptTraceSavingFirst(n) ==
    /\ target_data_length' = IF target_data_length = NoTarget THEN n
                              ELSE target_data_length
    /\ iteration_count' = iteration_count + 1
    /\ saved' = Append(saved, SaveRecord(iteration_count, n))
    /\ outcome' = "accepted"
    /\ pc' = "sleep"
    /\ UNCHANGED <<error, retried>>

\* The two accepting branches and the save that follows them.
AcceptTrace(n) ==
    /\ target_data_length' = IF target_data_length = NoTarget THEN n
                              ELSE target_data_length
    /\ iteration_count' = iteration_count + 1
    /\ saved' = Append(saved, SaveRecord(iteration_count + 1, n))
    /\ outcome' = "accepted"
    /\ pc' = "sleep"
    /\ UNCHANGED <<error, retried>>

\* Mutant (C3): a mismatch forgets the established target.
DiscardMismatchResetting ==
    /\ outcome' = "mismatch"
    /\ retried' = TRUE
    /\ pc' = "loop"
    /\ target_data_length' = NoTarget
    /\ UNCHANGED <<iteration_count, saved, error>>

\* Mutant (C21): without the continue a mismatch falls through to the save,
\* under the counter it did not advance.
DiscardMismatchFallingThrough ==
    /\ outcome' = "mismatch"
    /\ retried' = TRUE
    /\ pc' = "sleep"
    /\ saved' = Append(saved, SaveRecord(iteration_count, SampleCount(trace_data.text)))
    /\ UNCHANGED <<iteration_count, target_data_length, error>>

\* else: print("Data length mismatch ...") ; continue
DiscardMismatch ==
    /\ outcome' = "mismatch"
    /\ retried' = TRUE
    /\ pc' = "loop"
    /\ UNCHANGED <<iteration_count, target_data_length, saved, error>>

\* Mutant (C7): a skipped iteration is counted.
SkipIterationCounting(kind) ==
    /\ outcome' = kind
    /\ pc' = "sleep"
    /\ iteration_count' = iteration_count + 1
    /\ UNCHANGED <<target_data_length, saved, error, retried>>

\* Mutant (C20): a skipped iteration forgets the established target.
SkipIterationForgetting(kind) ==
    /\ outcome' = kind
    /\ pc' = "sleep"
    /\ target_data_length' = NoTarget
    /\ UNCHANGED <<iteration_count, saved, error, retried>>

\* trace_data is None or '', or holds no 'ready': nothing but the delay follows
SkipIteration(kind) ==
    /\ outcome' = kind
    /\ pc' = "sleep"
    /\ UNCHANGED <<iteration_count, target_data_length, saved, error, retried>>

\* float(numero) raises ValueError inside the comprehension; the loop has no
\* handler, so the script ends with the traceback.
RaiseValueError ==
    /\ outcome' = "raised"
    /\ error' = "ValueError"
    /\ pc' = "crashed"
    /\ UNCHANGED <<iteration_count, target_data_length, saved, retried>>

\* The loop body after the call, lines 180-208.
Validate ==
    /\ pc = "validate"
    /\ IF ~Truthy(trace_data) THEN SkipIteration("no_data")
       ELSE IF ~HasReady(trace_data.text) THEN SkipIteration("no_sentinel")
       ELSE IF ParseRaises(trace_data.text) THEN RaiseValueError
       ELSE IF Accepts(target_data_length, SampleCount(trace_data.text))
            THEN AcceptTrace(SampleCount(trace_data.text))
            ELSE DiscardMismatch
    /\ UNCHANGED <<caller, result, required_iterations, trace_data, objVars>>

\* time.sleep(0.1)
Sleep ==
    /\ pc = "sleep"
    /\ pc' = "loop"
    /\ UNCHANGED <<caller, result, mainVars, trace_data, objVars>>

\* ---------------------------------------------------- the parse on its own
\* The characters a decoded text can hold.
TextSymbols == Symbols \ {"0xFF"}

Texts == UNION {[1..n -> TextSymbols] : n \in 0..MaxTextLen}

\* A value __query__ can return: None or a text.
ParseInput ==
    /\ pc = "parse"
    /\ \/ trace_data' = NoneT
       \/ \E t \in Texts : trace_data' = Text(t)
    /\ result' = NoResult
    /\ pc' = "parse_call"
    /\ UNCHANGED <<caller, mainVars, objVars>>

\* the loop's lines 180-200 on that value
LoopParseCall ==
    /\ pc = "parse_call"
    /\ result' = LoopParse(trace_data)
    /\ pc' = "parsed"
    /\ UNCHANGED <<caller, trace_data, mainVars, objVars>>

\* OSA.get_single_trace's lines 214-233 on that value
OSATraceCall ==
    /\ pc = "parse_call"
    /\ result' = OSATrace(trace_data)
    /\ pc' = "parsed"
    /\ UNCHANGED <<caller, trace_data, mainVars, objVars>>

\* ArrayForLabview called with a text
ArrayForLabviewCall ==
    /\ pc = "parse_call"
    /\ ~trace_data.none
    /\ result' = ArrayForLabview(trace_data.text)
    /\ pc' = "parsed"
    /\ UNCHANGED <<caller, trace_data, mainVars, objVars>>

\* -------------------------------------------------- __query__ on its own
\* What one recv(4096) can hand over: at least one byte, any bytes.
Chunks(room) == UNION {[1..n -> Symbols] : n \in 1..room}

\* Mutant (C11): the chunk is put in front of what was received.
RecvChunkBytesInFront ==
    /\ pc = "recv"
    /\ socket = "connected"
    /\ Len(received_data) < MaxRecvLen
    /\ \E chunk \in Chunks(MaxRecvLen - Len(received_data)) :
          /\ received_data' = chunk \o received_data
          /\ chunks' = Append(chunks, chunk)
    /\ UNCHANGED <<pc, caller, result, mainVars, trace_data, args, socket, step, wire,
                   failed, attempts, faults, nOpen, opens, closes>>

\* chunk = self.socket.recv(4096); received_data += chunk
RecvChunkBytes ==
    /\ pc = "recv"
    /\ socket = "connected"
    /\ Len(received_data) < MaxRecvLen
    /\ \E chunk \in Chunks(MaxRecvLen - Len(received_data)) :
          /\ received_data' = received_data \o chunk
          /\ chunks' = Append(chunks, chunk)
    /\ UNCHANGED <<pc, caller, result, mainVars, trace_data, args, socket, step, wire,
                   failed, attempts, faults, nOpen, opens, closes>>

\* ---------------------------------------------- OSA.get_single_trace
\* A client calls OSA.get_single_trace(wavelength_start, wavelength_stop) on
\* a new object; open_socket, send_command and __query__ are the methods
\* above, the same code in both classes.
OSAClientCall ==
    /\ pc = "client"
    /\ \E ws \in {600, 1100}, we \in {600, 1100} : args' = <<ws, we>>
    /\ NewObject
    /\ trace_data' = NoneT
    /\ result' = NoResult
    /\ pc' = "open_socket"
    /\ UNCHANGED <<caller, mainVars, nOpen>>

\* OSA.get_single_trace from print(trace_data[:40]) on: the parse inside the
\* try, the return, the except clause, and finally: close_socket().  An
\* exception the except clause did not take would reach the caller.
OSAFinally ==
    /\ pc = "print"
    /\ result' = OSATrace(trace_data)
    /\ close_socket
    /\ error' = result'.raised
    /\ pc' = IF result'.raised = "none" THEN "client" ELSE "crashed"
    /\ UNCHANGED <<caller, required_iterations, iteration_count, target_data_length,
                   saved, outcome, retried, trace_data, args, step, received_data,
                   chunks, failed, attempts, faults, opens>>

\* ------------------------------------- an OSA object and a client's calls
\* OSA.__init__: self.sweep_modes
sweep_modes == [SINGLE |-> 1, REPEAT |-> 2, AUTO |-> 3]

SweepModeNames == {"SINGLE", "REPEAT", "AUTO", "FAST"}

ObjCommands == {<<"*RST">>, <<":init">>}

\* The client picks its next call and the argument it passes.
ObjPick ==
    /\ pc = "object"
    /\ Len(attempts) + opens + closes < MaxCalls
    /\ \/ pc' \in {"obj_open", "obj_close"} /\ args' = <<>>
       \/ pc' = "obj_send" /\ \E c \in ObjCommands : args' = <<c>>
       \/ pc' = "obj_sweep" /\ \E m \in SweepModeNames : args' = <<m>>
    /\ UNCHANGED <<caller, result, mainVars, trace_data, socket, step, received_data,
                   chunks, wire, failed, attempts, faults, nOpen, opens, closes>>

ObjOpen ==
    /\ pc = "obj_open"
    /\ Connect
    /\ pc' = "object"
    /\ UNCHANGED <<caller, result, mainVars, trace_data, args, step, received_data,
                   chunks, attempts, faults, closes>>

ObjSend ==
    /\ pc = "obj_send"
    /\ send_command(args[1])
    /\ pc' = "object"
    /\ UNCHANGED <<caller, result, mainVars, trace_data, args, step, received_data,
                   chunks, nOpen, opens, closes>>

ObjClose ==
    /\ pc = "obj_close"
    /\ close_socket
    /\ pc' = "object"
    /\ UNCHANGED <<caller, result, mainVars, trace_data, args, step, received_data,
                   chunks, failed, attempts, faults, opens>>

\* set_sweep_mode(sweep_mode): a known name goes to self.command(...), an
\* attribute the class does not have, so AttributeError leaves the method;
\* any other name raises the Exception of line 165.  Nothing is written.
set_sweep_mode ==
    /\ pc = "obj_sweep"
    /\ error' = IF args[1] \in DOMAIN sweep_modes THEN "AttributeError" ELSE "Exception"
    /\ pc' = "crashed"
    /\ UNCHANGED <<caller, result, required_iterations, iteration_count,
                   target_data_length, saved, outcome, retried, trace_data, objVars>>

\* ---------------------------------------------------------- specifications
Method == open_socket \/ SendStep \/ RecvChunk \/ RecvEnd \/ RecvError \/ Finally

\* The module as written: run as a script, or imported and called by a client.
Init ==
    /\ InitCommon
    /\ \/ pc = "loop" /\ caller = "main"
       \/ pc = "client" /\ caller = "client" /\ required_iterations = 0

Next == LoopTest \/ MainCall \/ ClientCall \/ Method

Spec == Init /\ [][Next]_vars

\* The acquisition loop with get_single_trace called with a request: the loop
\* body of the script behind a call that binds.
InitSession == InitCommon /\ pc = "loop" /\ caller = "main"

NextSession == LoopTest \/ MainCallWithRequest \/ Method \/ Validate \/ Sleep

SpecSession == InitSession /\ [][NextSession]_vars

\* The parse of a returned value, by the loop, by OSA.get_single_trace and by
\* ArrayForLabview, over every text of up to MaxTextLen symbols.
InitParse == InitCommon /\ pc = "parse" /\ caller = "client" /\ required_iterations = 0

NextParse == ParseInput \/ LoopParseCall \/ OSATraceCall \/ ArrayForLabviewCall

SpecParse == InitParse /\ [][NextParse]_vars

\* __query__ from its first recv on: a client's get_single_trace has opened
\* the connection and written the twelve commands; chunks of any bytes arrive.
InitReceive ==
    /\ pc = "recv" /\ caller = "client"
    /\ required_iterations = 0 /\ iteration_count = 0
    /\ target_data_length = NoTarget /\ saved = <<>>
    /\ trace_data = NoneT /\ error = "none" /\ outcome = "none" /\ retried = FALSE
    /\ args = LoopRequest
    /\ socket = "connected" /\ step = NCommands + 1
    /\ received_data = <<>> /\ chunks = <<>>
    /\ wire = [i \in 1..NCommands |-> Encode(Commands(LoopRequest[1], LoopRequest[2])[i])]
    /\ attempts = wire
    /\ failed = FALSE /\ faults = 0
    /\ nOpen = 1 /\ opens = 1 /\ closes = 0
    /\ result = NoResult

NextReceive == RecvChunkBytes \/ RecvEnd \/ RecvError \/ Finally

SpecReceive == InitReceive /\ [][NextReceive]_vars

\* One OSA object and a client that calls open_socket, send_command,
\* close_socket and set_sweep_mode on it in any order.
InitObject == InitCommon /\ pc = "object" /\ caller = "client" /\ required_iterations = 0

NextObject == ObjPick \/ ObjOpen \/ ObjSend \/ ObjClose \/ set_sweep_mode

SpecObject == InitObject /\ [][NextObject]_vars

\* OSA.get_single_trace called by a client, again and again, each time on a
\* new object.
InitOSA == InitCommon /\ pc = "client" /\ caller = "client" /\ required_iterations = 0

NextOSA ==
    OSAClientCall \/ open_socket \/ SendStep \/ RecvChunk \/ RecvEnd \/ RecvError
       \/ OSAFinally

SpecOSA == InitOSA /\ [][NextOSA]_vars

\* ------------------------------------------------------------------ claims
Parsed == Truthy(trace_data) /\ HasReady(trace_data.text) /\ ~ParseRaises(trace_data.text)

\* C1: the target sample count is unset exactly until the first successfully
\* parsed trace, is set by that trace to its length, never changes afterwards,
\* and every trace handed to save_data_to_csv has the target length.
C1_TargetFixed ==
    /\ [](/\ (target_data_length = NoTarget) <=> (iteration_count = 0)
          /\ Len(saved) = iteration_count
          /\ \A i \in 1..Len(saved) : saved[i].samples = target_data_length)
    /\ [][/\ target_data_length # NoTarget => target_data_length' = target_data_length
          /\ (target_data_length = NoTarget /\ target_data_length' # NoTarget)
                => /\ pc = "validate" /\ Parsed
                   /\ target_data_length' = SampleCount(trace_data.text)
          /\ (pc = "validate" /\ Parsed /\ target_data_length = NoTarget)
                => target_data_length' = SampleCount(trace_data.text)]_vars

\* C1 witness: two traces of one sample accepted, a mismatch in between.
C1_Witness ==
    /\ pc = "done" /\ iteration_count = 2 /\ target_data_length = 1
    /\ Len(saved) = 2 /\ saved[1].samples = 1 /\ saved[2].samples = 1

\* C2: the session ends with iteration_count = required_iterations, having
\* called save_data_to_csv exactly required_iterations times, and the counter
\* never exceeds required_iterations.
C2_ExactlyN ==
    /\ iteration_count <= required_iterations
    /\ Len(saved) = iteration_count
    /\ pc \in {"done", "crashed"} => iteration_count = required_iterations

\* C3: a parsed trace whose length differs from the established target leaves
\* counter, target and saved traces alone and raises nothing; a parsed trace
\* of the target length advances the counter by exactly one and is saved.
C3_MismatchDiscarded ==
    [][(pc = "validate" /\ Parsed /\ target_data_length # NoTarget)
         => IF SampleCount(trace_data.text) # target_data_length
            THEN /\ iteration_count' = iteration_count
                 /\ target_data_length' = target_data_length
                 /\ saved' = saved
                 /\ error' = "none" /\ pc' = "loop"
            ELSE /\ iteration_count' = iteration_count + 1
                 /\ target_data_length' = target_data_length
                 /\ Len(saved') = Len(saved) + 1
                 /\ saved'[Len(saved')].samples = target_data_length]_vars

\* C3 witness: a trace was accepted after a length mismatch had been discarded.
C3_Witness ==
    /\ pc = "sleep" /\ outcome = "accepted" /\ retried
    /\ iteration_count = 2

\* C4: no two sockets are ever open at once; between iterations none is open
\* and the socket an iteration created was closed exactly once; every
\* iteration starts on a fresh object whose socket is None.
C4_TransportScoped ==
    /\ nOpen <= 1 /\ opens <= 1 /\ closes <= 1
    /\ pc \in {"loop", "call", "validate", "sleep", "done", "crashed"}
          => nOpen = 0 /\ closes = opens
    /\ pc = "open_socket" => socket = "None" /\ opens = 0 /\ nOpen = 0
    /\ pc \in {"send_command", "recv", "print"} => closes = 0 /\ nOpen = opens

\* C4 witness: an iteration that ended in an error has closed its socket once.
C4_Witness ==
    /\ pc = "validate" /\ trace_data.none /\ failed
    /\ opens = 1 /\ closes = 1 /\ nOpen = 0 /\ iteration_count = 1

\* C5: every call of the loop enters get_single_trace with the iteration's
\* request, so the next thing that happens is opening the socket.
C5_CallBindsRequest ==
    [][pc = "call" => pc' = "open_socket" /\ args' = LoopRequest]_vars

\* C6: a response with a non-numeric segment after 'ready' leaves counter,
\* target and saved traces alone and the session goes on to the next iteration.
C6_MalformedDiscarded ==
    [][(pc = "validate" /\ Truthy(trace_data) /\ HasReady(trace_data.text)
          /\ ParseRaises(trace_data.text))
         => /\ iteration_count' = iteration_count
            /\ target_data_length' = target_data_length
            /\ saved' = saved
            /\ error' = "none" /\ pc' \in {"sleep", "loop"}]_vars

\* C7: a response without 'ready' leaves counter, target and saved traces
\* alone, and the session goes on: delay, loop test, and a call on a fresh
\* object whose socket is yet to be opened.
C7_NoSentinelDiscarded ==
    [][/\ (pc = "validate" /\ Truthy(trace_data) /\ ~HasReady(trace_data.text))
            => /\ iteration_count' = iteration_count
               /\ target_data_length' = target_data_length
               /\ saved' = saved
               /\ error' = "none" /\ outcome' = "no_sentinel" /\ pc' = "sleep"
       /\ (outcome = "no_sentinel" /\ pc = "sleep") => pc' = "loop"
       /\ (outcome = "no_sentinel" /\ pc = "loop") => pc' = "call"
       /\ (outcome = "no_sentinel" /\ pc = "call")
            => pc' = "open_socket" /\ socket' = "None" /\ nOpen' = 0]_vars

\* C7 witness: after one accepted trace a response without 'ready' was
\* skipped and the loop is about to call again.
C7_Witness ==
    pc = "call" /\ outcome = "no_sentinel" /\ iteration_count = 1 /\ Len(saved) = 1

\* C8: an iteration in which opening the socket or a write failed changes
\* neither counter nor target, saves nothing, and the session goes on with
\* the socket released.  (A malformed payload is C6's case and left out.)
C8_IoFailureRetries ==
    [][(pc = "validate" /\ failed
          /\ ~(Truthy(trace_data) /\ HasReady(trace_data.text)
                 /\ ParseRaises(trace_data.text)))
         => /\ iteration_count' = iteration_count
            /\ target_data_length' = target_data_length
            /\ saved' = saved
            /\ nOpen = 0
            /\ pc' \in {"sleep", "loop"}]_vars

C10_Expected(ws, we) ==
    << <<"open \"anonymous\"", "\r\n">>,
       <<"*RST", "\r\n">>,
       <<"CFORM1", "\r\n">>,
       <<":sens:wav:start ", ws, "nm", "\r\n">>,
       <<":sens:wav:stop ", we, "nm", "\r\n">>,
       <<":sens:sens HIGH2", "\r\n">>,
       <<":sens:sens:speed 2x", "\r\n">>,
       <<":sens:sweep:points:auto on", "\r\n">>,
       <<":init:smode 1", "\r\n">>,
       <<"*CLS", "\r\n">>,
       <<":init", "\r\n">>,
       <<":TRACE:Y? TRA", "\r\n">> >>

IsPrefix(a, b) == Len(a) <= Len(b) /\ a = SubSeq(b, 1, Len(a))

\* a is b with some entries left out and some cut short, order kept
RECURSIVE IsDeliveryOf(_, _)
IsDeliveryOf(a, b) ==
    IF a = <<>> THEN TRUE
    ELSE IF b = <<>> THEN FALSE
    ELSE \/ /\ Head(a) \in {Head(b), SubSeq(Head(b), 1, Len(Head(b)) - 1)}
            /\ IsDeliveryOf(Tail(a), Tail(b))
         \/ IsDeliveryOf(a, Tail(b))

RECURSIVE C11_Concat(_)
C11_Concat(cs) == IF cs = <<>> THEN <<>> ELSE Head(cs) \o C11_Concat(Tail(cs))

\* the chunks one after the other, each without its undecodable bytes
RECURSIVE C11_Decodable(_)
C11_Decodable(cs) ==
    IF cs = <<>> THEN <<>>
    ELSE [i \in 1..Cardinality({j \in 1..Len(Head(cs)) : Head(cs)[j] # "0xFF"}) |->
             Head(cs)[CHOOSE j \in 1..Len(Head(cs)) :
                 /\ Head(cs)[j] # "0xFF"
                 /\ Cardinality({k \in 1..j : Head(cs)[k] # "0xFF"}) = i]]
         \o C11_Decodable(Tail(cs))

\* C11 (as claimed): the text __query__ returns is the concatenation of
\* exactly the chunks received, nothing lost, duplicated or reordered.
C11_TextIsConcatenation ==
    (pc \in {"print", "client"} /\ ~trace_data.none)
       => trace_data.text = C11_Concat(chunks)

\* C11 (amended): received_data is at every moment the chunks received so
\* far in arrival order; when the loop ends on a zero-byte read or a timeout
\* the text returned is those bytes in that order without the undecodable
\* ones, and it is the concatenation itself when every byte decodes.
C11_TextIsDecodedConcatenation ==
    /\ pc \in {"recv", "print", "client"} => received_data = C11_Concat(chunks)
    /\ (pc \in {"print", "client"} /\ ~trace_data.none)
          => /\ trace_data.text = C11_Decodable(chunks)
             /\ (\A i \in 1..Len(received_data) : received_data[i] # "0xFF")
                   => trace_data.text = C11_Concat(chunks)

\* C11 witness: three chunks, one of them with an undecodable byte, then the
\* end of the response; the text holds the two bytes that decode.
C11_Witness ==
    /\ pc = "print" /\ ~trace_data.none
    /\ Len(chunks) = 3 /\ chunks[2] = <<"0xFF">>
    /\ trace_data.text = <<"ready", "1">>

\* C12 (as claimed): the index handed to save_data_to_csv is the counter's
\* value before the increment of that acceptance.
C12_SavedBeforeIncrement ==
    [][saved' # saved
         => /\ iteration_count' = iteration_count + 1
            /\ saved'[Len(saved')].index = iteration_count]_vars

\* C12 (amended): an acceptance increments the counter and then makes one
\* call of save_data_to_csv, whose index is the counter's value after the
\* increment; nothing else calls save_data_to_csv.
C12_SavedAfterIncrement ==
    [][/\ saved' # saved
            => /\ pc = "validate" /\ outcome' = "accepted"
               /\ iteration_count' = iteration_count + 1
               /\ saved' = Append(saved, saved'[Len(saved')])
               /\ saved'[Len(saved')].index = iteration_count'
       /\ iteration_count' # iteration_count => Len(saved') = Len(saved) + 1]_vars

\* C12 witness: the first accepted trace was saved under index 1.
C12_Witness ==
    /\ pc = "sleep" /\ outcome = "accepted" /\ iteration_count = 1
    /\ Len(saved) = 1 /\ saved[1].index = 1

\* C13: every way back to the loop test goes through the delay: no iteration
\* is followed by the next one without time.sleep(0.1) in between.
C13_DelayAfterEveryIteration ==
    [][pc' = "loop" => pc = "sleep"]_vars

\* C14: whatever produced an (axis, samples) pair, the axis has as many
\* points as there are samples.
C14_AxisMatchesSamples ==
    result.pair => result.axis = Len(result.samples)

\* What C15 describes, read off the text from left to right.
\* The text after the first 'ready':
C15_Payload(t) ==
    LET r == CHOOSE i \in 1..Len(t) : t[i] = "ready" /\ \A j \in 1..(i-1) : t[j] # "ready"
    IN  [i \in 1..(Len(t) - r) |-> t[r + i]]

\* its pieces between commas (cur is the piece being read):
RECURSIVE C15_Segments(_, _)
C15_Segments(t, cur) ==
    IF t = <<>> THEN <<cur>>
    ELSE IF Head(t) = "," THEN <<cur>> \o C15_Segments(Tail(t), <<>>)
    ELSE C15_Segments(Tail(t), Append(cur, Head(t)))

C15_Blank(s) == \A i \in 1..Len(s) : s[i] = " "

\* a piece without the whitespace around it:
C15_Trim(s) ==
    LET ink == {i \in 1..Len(s) : s[i] # " "}
        lo == CHOOSE i \in ink : \A j \in ink : i <= j
        hi == CHOOSE i \in ink : \A j \in ink : j <= i
    IN  [i \in 1..(hi - lo + 1) |-> s[lo + i - 1]]

C15_Number(s) == s # <<>> /\ \A i \in 1..Len(s) : s[i] = "1"

\* the pieces that are not blank, trimmed, in their order:
C15_Expected(t) ==
    LET kept == SelectSeq(C15_Segments(C15_Payload(t), <<>>), LAMBDA s : ~C15_Blank(s))
    IN  [i \in 1..Len(kept) |-> C15_Trim(kept[i])]

\* C15: for a text that holds 'ready', the loop and OSA.get_single_trace
\* yield as samples the non-blank comma-separated pieces of what follows the
\* first 'ready', in order; text before it contributes nothing and a later
\* 'ready' is part of a piece (a piece that is no number fails the parse).
C15_ParseAfterFirstReady ==
    (result.op \in {"loop", "osa"} /\ Truthy(trace_data) /\ HasReady(trace_data.text))
      => IF \A i \in 1..Len(C15_Expected(trace_data.text)) :
                 C15_Number(C15_Expected(trace_data.text)[i])
         THEN result.pair /\ result.samples = C15_Expected(trace_data.text)
         ELSE /\ ~result.pair
              /\ result.op = "loop" => result.raised = "ValueError"
              /\ result.op = "osa" => result.caught = "ValueError"

\* C15 witness: '1ready, 1' parsed by the loop gives the one sample after the
\* sentinel; the number before it and the empty piece are left out.
C15_Witness ==
    /\ pc = "parsed" /\ result.op = "loop" /\ result.pair
    /\ trace_data.text = <<"1", "ready", ",", " ", "1">>
    /\ result.samples = << <<"1">> >>

\* C16: the session ends only by reaching the loop's terminal condition,
\* iteration_count = required_iterations; whatever the device returns it
\* goes on retrying and never ends by raising.
C16_EndsOnlyAtTerminalCount ==
    /\ pc # "crashed" /\ error = "none"
    /\ pc = "done" => iteration_count = required_iterations

\* C17: a send_command that wrote to the connection wrote the whole command
\* with its CRLF: what the connection was given grows by nothing or by the
\* complete terminated command, never by a part of it.
C17_WritesAllBytes ==
    [][pc = "send_command"
         => \/ wire' = wire
            \/ wire' = Append(wire, Append(Commands(args[1], args[2])[step], "\r\n"))]_vars

\* C18: in any sequence of open_socket, send_command and close_socket calls,
\* close_socket returns normally and leaves no connection open; on an absent
\* or already closed socket it changes nothing, and no socket is ever
\* released twice.
C18_CloseIdempotent ==
    /\ [](nOpen \in {0, 1} /\ (socket \in {"None", "closed"} => nOpen = 0))
    /\ [][pc = "obj_close"
            => /\ pc' = "object" /\ error' = "none"
               /\ socket' \in {"None", "closed"} /\ nOpen' = 0
               /\ socket \in {"None", "closed"}
                     => socket' = socket /\ nOpen' = nOpen /\ wire' = wire]_vars

\* C18 witness: a socket that never connected was closed, and closed again.
C18_Witness ==
    /\ pc = "object" /\ socket = "closed" /\ opens = 1 /\ closes = 2
    /\ failed /\ nOpen = 0 /\ attempts = <<>>

\* C19: set_sweep_mode with SINGLE, REPEAT or AUTO returns normally having
\* handed ':init:smode N' (N = 1, 2, 3) with its CRLF to the socket it has;
\* with any other name it raises and hands the socket nothing.
C19_SweepModeSent ==
    [][pc = "obj_sweep"
         => IF args[1] \in {"SINGLE", "REPEAT", "AUTO"}
            THEN /\ error' = "none" /\ pc' = "object"
                 /\ socket # "None"
                       => attempts' = Append(attempts,
                              <<":init:smode ",
                                CASE args[1] = "SINGLE" -> 1
                                  [] args[1] = "REPEAT" -> 2
                                  [] args[1] = "AUTO" -> 3,
                                "\r\n">>)
            ELSE error' # "none" /\ attempts' = attempts]_vars

\* C20: when __query__'s loop ends without a byte received the value it
\* returns is the empty text (None if recv raised), get_single_trace hands
\* it on as it is, and the loop, given the empty text, changes neither
\* counter nor target, saves nothing and goes to the delay.
C20_EmptyResponseSkipped ==
    [][/\ (pc = "recv" /\ received_data = <<>> /\ pc' = "print")
            => trace_data' \in {Text(<<>>), NoneT}
       /\ pc = "print" => trace_data' = trace_data
       /\ (pc = "validate" /\ trace_data = Text(<<>>))
            => /\ iteration_count' = iteration_count
               /\ target_data_length' = target_data_length
               /\ saved' = saved
               /\ error' = "none" /\ pc' = "sleep"]_vars

\* C20 witness: after one accepted trace an iteration received no byte, got
\* the empty text and was skipped.
C20_Witness ==
    /\ pc = "sleep" /\ outcome = "no_data" /\ trace_data = Text(<<>>)
    /\ socket = "closed" /\ ~failed /\ received_data = <<>>
    /\ iteration_count = 1 /\ target_data_length = 1 /\ Len(saved) = 1

\* C21: the indices handed to save_data_to_csv in one session are 1, 2, 3,
\* ... in the order of the calls, one call per accepted trace: pairwise
\* distinct and consecutive, so no call names the file of an earlier one.
C21_IndicesDistinctConsecutive ==
    /\ Len(saved) = iteration_count
    /\ \A i \in 1..Len(saved) : \A j \in 1..Len(saved) :
          i # j => saved[i].index # saved[j].index
    /\ \A i \in 1..(Len(saved) - 1) : saved[i + 1].index = saved[i].index + 1

\* C21 witness: a session of two accepted traces with a discarded one in
\* between has saved under 1 and then under 2.
C21_Witness ==
    /\ pc = "done" /\ retried /\ Len(saved) = 2
    /\ saved[1].index = 1 /\ saved[2].index = 2

\* C22: OSA.get_single_trace always returns to its caller, with an (axis,
\* samples) pair of equal lengths or with None, whatever the connection and
\* the device did; by then nothing of this call is open: a socket it created
\* was closed once.
C22_NeverPropagates ==
    /\ error = "none" /\ pc # "crashed"
    /\ result.op = "osa"
          => /\ pc = "client" /\ result.raised = "none"
             /\ result.pair => /\ Parsed /\ result.caught = "none"
                               /\ result.axis = Len(result.samples)
                               /\ Len(result.samples) = SampleCount(trace_data.text)
             /\ ~result.pair => /\ ~Parsed
                                /\ result.caught \in {"TypeError", "UnboundLocalError",
                                                       "ValueError"}
             /\ socket \in {"None", "closed"} /\ nOpen = 0 /\ closes = opens

\* C22 witness: the device answered with a non-numeric sample over a
\* connection on which a write had failed; the method returned None and the
\* socket is closed.
C22_Witness ==
    /\ pc = "client" /\ result.op = "osa" /\ ~result.pair
    /\ result.caught = "ValueError" /\ failed
    /\ socket = "closed" /\ closes = 1 /\ nOpen = 0

\* C23: a response with 'ready' and no sample after it is a parsed trace of
\* length 0: with the target unset it is accepted and saved, the counter
\* advances and the target becomes 0; with the target at 0 every parsed
\* trace that has samples is discarded as a mismatch, and only traces
\* without samples are ever saved.
C23_EmptyTraceFixesTargetZero ==
    /\ [](target_data_length = 0
            => \A i \in 1..Len(saved) : saved[i].samples = 0 /\ saved[i].axis = 0)
    /\ [][/\ (pc = "validate" /\ Parsed /\ SampleCount(trace_data.text) = 0
                /\ target_data_length = NoTarget)
               => /\ target_data_length' = 0
                  /\ iteration_count' = iteration_count + 1
                  /\ Len(saved') = Len(saved) + 1
                  /\ saved'[Len(saved')].samples = 0
                  /\ outcome' = "accepted" /\ error' = "none"
          /\ (pc = "validate" /\ Parsed /\ SampleCount(trace_data.text) > 0
                /\ target_data_length = 0)
               => /\ outcome' = "mismatch"
                  /\ target_data_length' = 0
                  /\ iteration_count' = iteration_count
                  /\ saved' = saved]_vars

\* C23 witness: 'ready' alone was accepted first, and a later trace of one
\* sample has just been discarded against the target 0.
C23_Witness ==
    /\ pc = "loop" /\ outcome = "mismatch" /\ target_data_length = 0
    /\ iteration_count = 1 /\ Len(saved) = 1 /\ saved[1].samples = 0
    /\ Parsed /\ SampleCount(trace_data.text) = 1

====
